---- MODULE Spec2Model ----
(***************************************************************************)
(* A model of tview's Table widget (src/demos/basic.go, package tview):    *)
(* the cell store (SetCell, GetCell, Clear), the setters, the paint        *)
(* (Table.Draw: row-offset clamping, visible rows, the column scan with    *)
(* eviction) and the key handler (Table.InputHandler).                     *)
(*                                                                         *)
(* A cell is modelled by the two fields the layout reads: Text, a sequence *)
(* of characters, and MaxWidth.  Align, Color and Selectable are read only *)
(* when the text is printed and are left out.                              *)
(***************************************************************************)
EXTENDS Integers, Sequences, FiniteSets, TLC

VARIABLES
    cells,              \* t.cells: rows first, then columns
    lastColumn,         \* t.lastColumn
    borders,            \* t.borders
    fixedRows,          \* t.fixedRows
    fixedColumns,       \* t.fixedColumns
    rowsSelectable,     \* t.rowsSelectable
    columnsSelectable,  \* t.columnsSelectable
    selectedRow,        \* t.selectedRow
    selectedColumn,     \* t.selectedColumn
    rowOffset,          \* t.rowOffset
    columnOffset,       \* t.columnOffset
    trackEnd,           \* t.trackEnd
    visibleRows,        \* t.visibleRows
    selected,           \* t.selected # nil
    done,               \* t.done # nil
    paint,              \* history: what the last operation, a paint, computed
    calls,              \* history: the callbacks the last operation invoked
    written             \* history: the cells passed to SetCell since the last Clear

vars == <<cells, lastColumn, borders, fixedRows, fixedColumns, rowsSelectable,
          columnsSelectable, selectedRow, selectedColumn, rowOffset,
          columnOffset, trackEnd, visibleRows, selected, done, paint,
          calls, written>>

config == <<borders, fixedRows, fixedColumns, rowsSelectable, columnsSelectable>>
handlers == <<selected, done>>
navigation == <<selectedRow, selectedColumn, rowOffset, columnOffset, trackEnd>>

-----------------------------------------------------------------------------
(* Bounds of the model. *)

\* Row indices passed to SetCell are 0..MaxRow.
MaxRow == 4
\* Column indices passed to SetCell are 0..MaxColumn.
MaxColumn == 2
\* The inner rectangle's height is 0..MaxHeight.
MaxHeight == 3
\* The inner rectangle's width is 0..MaxWidth.
MaxWidth == 4
\* Scrolling keys are taken while the offsets stay within -MaxOffset..MaxOffset.
MaxOffset == 2

-----------------------------------------------------------------------------
(* Values. *)

Min(a, b) == IF a < b THEN a ELSE b
Max(a, b) == IF a > b THEN a ELSE b

\* &TableCell{}: the zero value.
DefaultCell == [Text |-> <<>>, MaxWidth |-> 0]

CellA == [Text |-> <<"a">>, MaxWidth |-> 0]
CellHello == [Text |-> <<"h", "e", "l", "l", "o">>, MaxWidth |-> 3]

\* paint.before: the offsets and the track-end flag the paint started from;
\* paint.evicted: the columns the paint's scan skipped, in the order skipped;
\* paint.nothing: the candidate columns at which it found nothing to skip.
NoPaint == [painted |-> FALSE, panic |-> FALSE, rows |-> <<>>, columns |-> <<>>,
            widths |-> <<>>, evicted |-> <<>>, nothing |-> <<>>, width |-> 0,
            height |-> 0,
            before |-> [rowOffset |-> 0, columnOffset |-> 0, trackEnd |-> FALSE]]

\* Go's make([]T, n): n zero values; the grid's rows are nil slices, <<>>.
Repeat(x, n) == [i \in 1..n |-> x]

\* len(t.cells)
RowCount == Len(cells)

-----------------------------------------------------------------------------
(* NewTable *)

Init ==
    /\ cells = <<>>
    /\ lastColumn = -1
    /\ borders = FALSE
    /\ fixedRows = 0
    /\ fixedColumns = 0
    /\ rowsSelectable = FALSE
    /\ columnsSelectable = FALSE
    /\ selectedRow = 0
    /\ selectedColumn = 0
    /\ rowOffset = 0
    /\ columnOffset = 0
    /\ trackEnd = TRUE
    /\ visibleRows = 0
    /\ selected = FALSE
    /\ done = FALSE
    /\ paint = NoPaint
    /\ calls = <<>>
    /\ written = {}

-----------------------------------------------------------------------------
(* The cell store.  Rows and columns are 0-based as in the source; the     *)
(* sequences are 1-based, so t.cells[row][column] is cells[row+1][column+1].*)

\* SetCell with the appended slots below column filled with the cell written.
SetCellGridSmear(grid, row, column, cell) ==
    LET grown == IF row >= Len(grid)
                 THEN grid \o Repeat(<<>>, row - Len(grid) + 1)
                 ELSE grid
        rowLen == Len(grown[row + 1])
        line == IF column >= rowLen
                THEN grown[row + 1] \o Repeat(cell, column - rowLen + 1)
                ELSE grown[row + 1]
    IN  [grown EXCEPT ![row + 1] = [line EXCEPT ![column + 1] = cell]]

\* The grid after SetCell(row, column, cell).
SetCellGrid(grid, row, column, cell) ==
    LET grown == IF row >= Len(grid)
                 THEN grid \o Repeat(<<>>, row - Len(grid) + 1)
                 ELSE grid
        rowLen == Len(grown[row + 1])
        \* the appended slots below column are filled with &TableCell{}
        line == IF column >= rowLen
                THEN grown[row + 1] \o Repeat(DefaultCell, column - rowLen + 1)
                ELSE grown[row + 1]
    IN  [grown EXCEPT ![row + 1] = [line EXCEPT ![column + 1] = cell]]

\* SetCell with lastColumn set to the column written, greater or not.
SetCellLastColumnOverwrite(last, column) == column

\* t.lastColumn after SetCell at column.
SetCellLastColumn(last, column) == IF column > last THEN column ELSE last

\* The history of writes: position <<row, column>> now holds cell.
Record(w, row, column, cell) ==
    {e \in w : ~(e.row = row /\ e.column = column)}
        \cup {[row |-> row, column |-> column, cell |-> cell]}

SetCell(row, column, cell) ==
    /\ cells' = SetCellGrid(cells, row, column, cell)
    /\ lastColumn' = SetCellLastColumn(lastColumn, column)
    /\ written' = Record(written, row, column, cell)
    /\ paint' = NoPaint
    /\ calls' = <<>>
    /\ UNCHANGED <<config, handlers, navigation, visibleRows>>

\* len(t.cells[row]), 0 for a row the grid does not have.
RowLen(grid, row) == IF row < Len(grid) THEN Len(grid[row + 1]) ELSE 0

\* GetCell with the row's last cell taken to be beyond its end.
GetCellShortRow(row, column) ==
    IF row >= Len(cells) \/ column + 1 >= Len(cells[row + 1])
    THEN DefaultCell
    ELSE cells[row + 1][column + 1]

\* GetCell(row, column): a read, which changes nothing.
GetCell(row, column) ==
    IF row >= Len(cells) \/ column >= Len(cells[row + 1])
    THEN DefaultCell
    ELSE cells[row + 1][column + 1]

\* t.lastColumn after Clear.
ClearLastColumn == -1

Clear ==
    /\ cells' = <<>>
    /\ lastColumn' = ClearLastColumn
    /\ written' = {}
    /\ paint' = NoPaint
    /\ calls' = <<>>
    /\ UNCHANGED <<config, handlers, navigation, visibleRows>>

-----------------------------------------------------------------------------
(* The setters. *)

SetBorders(show) ==
    /\ borders' = show
    /\ paint' = NoPaint
    /\ calls' = <<>>
    /\ UNCHANGED <<cells, lastColumn, written, fixedRows, fixedColumns,
                   rowsSelectable, columnsSelectable, handlers, navigation,
                   visibleRows>>

SetFixed(rows, columns) ==
    /\ fixedRows' = rows
    /\ fixedColumns' = columns
    /\ paint' = NoPaint
    /\ calls' = <<>>
    /\ UNCHANGED <<cells, lastColumn, written, borders, rowsSelectable,
                   columnsSelectable, handlers, navigation, visibleRows>>

SetSelectable(rows, columns) ==
    /\ rowsSelectable' = rows
    /\ columnsSelectable' = columns
    /\ paint' = NoPaint
    /\ calls' = <<>>
    /\ UNCHANGED <<cells, lastColumn, written, borders, fixedRows,
                   fixedColumns, handlers, navigation, visibleRows>>

SetSelected(row, column) ==
    /\ selectedRow' = row
    /\ selectedColumn' = column
    /\ paint' = NoPaint
    /\ calls' = <<>>
    /\ UNCHANGED <<cells, lastColumn, written, config, handlers, rowOffset,
                   columnOffset, trackEnd, visibleRows>>

SetOffset(row, column) ==
    /\ rowOffset' = row
    /\ columnOffset' = column
    /\ paint' = NoPaint
    /\ calls' = <<>>
    /\ UNCHANGED <<cells, lastColumn, written, config, handlers, selectedRow,
                   selectedColumn, trackEnd, visibleRows>>

SetSelectedFunc(handler) ==
    /\ selected' = handler
    /\ paint' = NoPaint
    /\ calls' = <<>>
    /\ UNCHANGED <<cells, lastColumn, written, config, done, navigation,
                   visibleRows>>

SetDoneFunc(handler) ==
    /\ done' = handler
    /\ paint' = NoPaint
    /\ calls' = <<>>
    /\ UNCHANGED <<cells, lastColumn, written, config, selected, navigation,
                   visibleRows>>

-----------------------------------------------------------------------------
(* Table.Draw: the row offset.  A clamp state is [off, te]: t.rowOffset    *)
(* and t.trackEnd as the paint has set them so far.                        *)

\* height / 2 with borders, height without: the rows a viewport holds.
Capacity(height) == IF borders THEN height \div 2 ELSE height

\* The selected row lies above the scrolled window: pull the window up.
ClampRowTop(s) ==
    IF rowsSelectable /\ selectedRow >= fixedRows
                      /\ selectedRow < fixedRows + s.off
    THEN [off |-> selectedRow - fixedRows, te |-> FALSE]
    ELSE s

\* The bottom clamp with the offset one row short.
ClampRowBottomShort(s, height) ==
    IF /\ rowsSelectable
       /\ IF borders THEN 2 * (selectedRow + 1 - s.off) >= height
                     ELSE selectedRow + 1 - s.off >= height
    THEN [off |-> selectedRow - Capacity(height), te |-> FALSE]
    ELSE s

\* The selected row lies at or below the bottom edge: push the window down.
ClampRowBottom(s, height) ==
    IF /\ rowsSelectable
       /\ IF borders THEN 2 * (selectedRow + 1 - s.off) >= height
                     ELSE selectedRow + 1 - s.off >= height
    THEN [off |-> selectedRow + 1 - Capacity(height), te |-> FALSE]
    ELSE s

\* The paint without the test that turns track-end back on.
ClampRowFitMissing(s, height) == s

\* The fit test counting two lines a row, borders or not.
ClampRowFitDoubled(s, height) ==
    IF 2 * (RowCount - s.off) < height THEN [s EXCEPT !.te = TRUE] ELSE s

\* The rows from the offset on do not fill the viewport: track the end.
ClampRowFit(s, height) ==
    IF IF borders THEN 2 * (RowCount - s.off) < height
                  ELSE RowCount - s.off < height
    THEN [s EXCEPT !.te = TRUE]
    ELSE s

\* Tracking the end by the height, borders or not.
ClampRowTrackEndHeight(s, height) ==
    IF s.te THEN [s EXCEPT !.off = RowCount - height] ELSE s

\* Tracking the end: the last row is the last visible one.
ClampRowTrackEnd(s, height) ==
    IF s.te THEN [s EXCEPT !.off = RowCount - Capacity(height)] ELSE s

\* The paint without the floor of the row offset.
ClampRowFloorMissing(s) == s

\* if t.rowOffset < 0 { t.rowOffset = 0 }
ClampRowFloor(s) == IF s.off < 0 THEN [s EXCEPT !.off = 0] ELSE s

\* "Clamp row offsets.": the five steps in the order of the source.
ClampRows(height) ==
    ClampRowFloor(
        ClampRowTrackEnd(
            ClampRowFit(
                ClampRowBottom(
                    ClampRowTop([off |-> rowOffset, te |-> trackEnd]),
                    height),
                height),
            height))

(* Table.Draw: the visible rows.  acc is [rows, tableHeight]. *)

\* indexRow for row, row+1, ... below limit, until one is refused.
RECURSIVE IndexRows(_, _, _, _)
IndexRows(acc, row, limit, height) ==
    IF row >= limit \/ acc.tableHeight >= height
    THEN acc
    ELSE IndexRows([rows |-> Append(acc.rows, row),
                    tableHeight |-> acc.tableHeight + (IF borders THEN 2 ELSE 1)],
                   row + 1, limit, height)

\* The fixed rows first, then the rows from fixedRows + off on.
VisibleRowList(off, height) ==
    LET fixed == IndexRows([rows |-> <<>>, tableHeight |-> 0], 0,
                           Min(fixedRows, RowCount), height)
    IN  IndexRows(fixed, fixedRows + off, RowCount, height).rows

-----------------------------------------------------------------------------
(* Table.Draw: the column scan.  A scan state is [columns, widths,        *)
(* tableWidth, lastTableWidth, skipped, stop]; stop is "break ColumnLoop". *)
(* Its evicted field is history: the columns skipped, in the order skipped, *)
(* and so is nothing: the candidate columns at which "Nothing to skip." was *)
(* reached.                                                                *)
(* selCol and colOff are t.selectedColumn and t.columnOffset as clamped    *)
(* before the scan.                                                        *)

\* getCell of the paint: is there a cell at (row, column)?
HasCell(row, column) == row < RowCount /\ column < Len(cells[row + 1])

\* The width a cell asks for: its text's length, cut to its MaxWidth.
CellWidth(cell) ==
    IF cell.MaxWidth > 0 /\ cell.MaxWidth < Len(cell.Text)
    THEN cell.MaxWidth
    ELSE Len(cell.Text)

RECURSIVE SeqMax(_, _)
SeqMax(values, from) ==
    IF from > Len(values) THEN -1
    ELSE Max(values[from], SeqMax(values, from + 1))

\* maxWidth: the widest cell of the column in the visible rows, -1 if none.
ColumnWidth(rows, column) ==
    SeqMax([i \in 1..Len(rows) |->
               IF HasCell(rows[i], column)
               THEN CellWidth(cells[rows[i] + 1][column + 1])
               ELSE -1], 1)

\* The sequence without its element at 0-based index i.
RemoveAt(q, i) == SubSeq(q, 1, i) \o SubSeq(q, i + 2, Len(q))

\* The skip dropping the leftmost column, fixed or not.
SkipFirst(s) ==
    [s EXCEPT !.skipped = @ + 1,
              !.lastTableWidth = @ - (s.widths[1] + 1),
              !.tableWidth = @ - (s.widths[1] + 1),
              !.columns = RemoveAt(@, 0),
              !.widths = RemoveAt(@, 0),
              !.evicted = Append(@, s.columns[1])]

\* "We need to skip a column.": the leftmost non-fixed column is dropped.
Skip(s) ==
    [s EXCEPT !.skipped = @ + 1,
              !.lastTableWidth = @ - (s.widths[fixedColumns + 1] + 1),
              !.tableWidth = @ - (s.widths[fixedColumns + 1] + 1),
              !.columns = RemoveAt(@, fixedColumns),
              !.widths = RemoveAt(@, fixedColumns),
              !.evicted = Append(@, s.columns[fixedColumns + 1])]

\* The scan without the stop at the seam.
SelectionAtSeamNever(s, selCol) == FALSE

\* "The selected column reached the leftmost point before disappearing."
SelectionAtSeam(s, selCol) ==
    columnsSelectable /\ selCol - s.skipped = fixedColumns

\* "We've skipped as many as requested and the selection is visible."
SelectionVisible(s, column, width, selCol, colOff) ==
    /\ columnsSelectable
    /\ s.skipped >= colOff
    /\ \/ selCol < column /\ s.lastTableWidth < width - 1
       \/ selCol < column - 1

\* "Nothing to skip.": this break leaves the inner loop only.
NothingToSkip(s) == Len(s.columns) <= fixedColumns

\* The inner loop: for tableWidth-1 >= width { ... }.
RECURSIVE SkipLoop(_, _, _, _, _)
SkipLoop(s, column, width, selCol, colOff) ==
    IF ~(s.tableWidth - 1 >= width) THEN s
    ELSE IF column < fixedColumns THEN [s EXCEPT !.stop = TRUE]
    ELSE IF ~columnsSelectable /\ s.skipped >= colOff THEN [s EXCEPT !.stop = TRUE]
    ELSE IF SelectionAtSeam(s, selCol) THEN [s EXCEPT !.stop = TRUE]
    ELSE IF SelectionVisible(s, column, width, selCol, colOff)
         THEN [s EXCEPT !.stop = TRUE]
    ELSE IF NothingToSkip(s) THEN [s EXCEPT !.nothing = Append(@, column)]
    ELSE SkipLoop(Skip(s), column, width, selCol, colOff)

\* "Store new column info at the end."
Store(s, column, maxWidth) ==
    [s EXCEPT !.columns = Append(@, column),
              !.widths = Append(@, maxWidth),
              !.lastTableWidth = s.tableWidth,
              !.tableWidth = @ + maxWidth + 1]

\* ColumnLoop: for column := 0; column <= t.lastColumn; column++ { ... }.
RECURSIVE ColumnLoop(_, _, _, _, _, _)
ColumnLoop(s, column, rows, width, selCol, colOff) ==
    IF column > lastColumn THEN s
    ELSE LET e == SkipLoop(s, column, width, selCol, colOff)
             maxWidth == ColumnWidth(rows, column)
         IN  IF e.stop THEN e
             ELSE IF maxWidth < 0 THEN e
             ELSE ColumnLoop(Store(e, column, maxWidth), column + 1, rows,
                             width, selCol, colOff)

\* "Clamp column offset. (Only left side here. ...)"
ClampColumnLeft ==
    LET pulled == IF columnsSelectable /\ selectedColumn >= fixedColumns
                                       /\ selectedColumn < fixedColumns + columnOffset
                  THEN selectedColumn - fixedColumns
                  ELSE columnOffset
    IN  IF pulled < 0 THEN 0 ELSE pulled

\* if t.selectedColumn < 0 { t.selectedColumn = 0 }
ClampSelectedColumn == IF selectedColumn < 0 THEN 0 ELSE selectedColumn

\* The scan's result for the visible rows and the inner width.
ColumnScan(rows, width) ==
    ColumnLoop([columns |-> <<>>, widths |-> <<>>,
                tableWidth |-> IF borders THEN 1 ELSE 0,
                lastTableWidth |-> 0, skipped |-> 0, stop |-> FALSE,
                evicted |-> <<>>, nothing |-> <<>>],
               0, rows, width, ClampSelectedColumn, ClampColumnLeft)

\* The paint leaving the column offset as it was requested.
ScanColumnOffsetKept(scan) == ClampColumnLeft

\* t.columnOffset = skipped
ScanColumnOffset(scan) == scan.skipped

-----------------------------------------------------------------------------
(* Table.Draw: the cells.  The screen is not modelled; what is, is where   *)
(* each column's text starts and whether the paint comes back.             *)

\* The x position, relative to the inner rectangle, of visible column i's
\* text (i is 1-based): columnX + 1.
RECURSIVE TextX(_, _)
TextX(widths, i) ==
    IF i = 1 THEN (IF borders THEN 1 ELSE 0)
    ELSE TextX(widths, i - 1) + widths[i - 1] + 1

\* With borders a row's text line is rowY*2+1; the row loop breaks when it
\* is not below height.
TextLineDrawn(i, height) == ~borders \/ 2 * (i - 1) + 1 < height

\* cell := getCell(row, column); textColor := cell.Color dereferences nil
\* when a visible row has no cell in a visible column.
DrawPanics(rows, columns, height) ==
    \E c \in 1..Len(columns) : \E i \in 1..Len(rows) :
        /\ \A j \in 1..i : TextLineDrawn(j, height)
        /\ ~HasCell(rows[i], columns[c])

\* Draw with GetInnerRect() giving width and height.
Draw(width, height) ==
    LET clamped == ClampRows(height)
        rows == VisibleRowList(clamped.off, height)
        scan == ColumnScan(rows, width)
    IN  /\ visibleRows' = Capacity(height)
        /\ rowOffset' = clamped.off
        /\ trackEnd' = clamped.te
        /\ selectedColumn' = ClampSelectedColumn
        /\ columnOffset' = ScanColumnOffset(scan)
        /\ paint' = [painted |-> TRUE,
                     panic |-> DrawPanics(rows, scan.columns, height),
                     rows |-> rows, columns |-> scan.columns,
                     widths |-> scan.widths, evicted |-> scan.evicted,
                     nothing |-> scan.nothing,
                     width |-> width, height |-> height,
                     before |-> [rowOffset |-> rowOffset,
                                 columnOffset |-> columnOffset,
                                 trackEnd |-> trackEnd]]
        /\ calls' = <<>>
        /\ UNCHANGED <<cells, lastColumn, written, config, handlers, selectedRow>>

-----------------------------------------------------------------------------
(* Table.InputHandler.  A key is tcell's key name, or the rune of a        *)
(* KeyRune event.                                                          *)

Keys == {"Enter", "Escape", "Tab", "Backtab", "Home", "End", "Up", "Down",
         "Left", "Right", "PgDn", "PgUp", "CtrlF", "CtrlB",
         "g", "G", "j", "k", "h", "l", "x"}

\* The first branch without its Enter case.
IsCancelNoEnter(key) == key \in {"Escape", "Tab", "Backtab"}

\* The first branch taking every Enter, whatever is selectable.
IsCancelEnter(key) == key \in {"Enter", "Escape", "Tab", "Backtab"}

\* The first branch: Escape, Tab, Backtab, and Enter with nothing selectable.
IsCancel(key) ==
    \/ ~rowsSelectable /\ ~columnsSelectable /\ key = "Enter"
    \/ key \in {"Escape", "Tab", "Backtab"}

\* The switch: the movement function a key runs.
Command(key) ==
    CASE key \in {"g", "Home"} -> "home"
      [] key \in {"G", "End"} -> "end"
      [] key \in {"j", "Down"} -> "down"
      [] key \in {"k", "Up"} -> "up"
      [] key \in {"h", "Left"} -> "left"
      [] key \in {"l", "Right"} -> "right"
      [] key \in {"PgDn", "CtrlF"} -> "pageDown"
      [] key \in {"PgUp", "CtrlB"} -> "pageUp"
      [] key = "Enter" -> "enter"
      [] OTHER -> "none"

\* A movement's result: the five fields a movement function may assign.
Nav == [selectedRow |-> selectedRow, selectedColumn |-> selectedColumn,
        rowOffset |-> rowOffset, columnOffset |-> columnOffset,
        trackEnd |-> trackEnd]

home ==
    IF rowsSelectable
    THEN [Nav EXCEPT !.selectedRow = 0, !.selectedColumn = 0]
    ELSE [Nav EXCEPT !.trackEnd = FALSE, !.rowOffset = 0, !.columnOffset = 0]

end ==
    IF rowsSelectable
    THEN [Nav EXCEPT !.selectedRow = RowCount - 1, !.selectedColumn = lastColumn]
    ELSE [Nav EXCEPT !.trackEnd = TRUE, !.columnOffset = 0]

\* selectedRow moved down by step, then cut to the last row.
RowDown(step) ==
    IF selectedRow + step >= RowCount THEN RowCount - 1 ELSE selectedRow + step

\* selectedRow moved up by step, then cut to row 0.
RowUp(step) == IF selectedRow - step < 0 THEN 0 ELSE selectedRow - step

down ==
    IF rowsSelectable
    THEN [Nav EXCEPT !.selectedRow = RowDown(1)]
    ELSE [Nav EXCEPT !.rowOffset = @ + 1]

up ==
    IF rowsSelectable
    THEN [Nav EXCEPT !.selectedRow = RowUp(1)]
    ELSE [Nav EXCEPT !.trackEnd = FALSE, !.rowOffset = @ - 1]

left ==
    IF columnsSelectable
    THEN [Nav EXCEPT !.selectedColumn =
                         IF selectedColumn - 1 < 0 THEN 0 ELSE selectedColumn - 1]
    ELSE [Nav EXCEPT !.columnOffset = @ - 1]

right ==
    IF columnsSelectable
    THEN [Nav EXCEPT !.selectedColumn =
                         IF selectedColumn + 1 > lastColumn THEN lastColumn
                         ELSE selectedColumn + 1]
    ELSE [Nav EXCEPT !.columnOffset = @ + 1]

pageDown ==
    IF rowsSelectable
    THEN [Nav EXCEPT !.selectedRow = RowDown(visibleRows)]
    ELSE [Nav EXCEPT !.rowOffset = @ + visibleRows]

pageUp ==
    IF rowsSelectable
    THEN [Nav EXCEPT !.selectedRow = RowUp(visibleRows)]
    ELSE [Nav EXCEPT !.trackEnd = FALSE, !.rowOffset = @ - visibleRows]

\* The fields after the key's movement function, if it has one.
Move(key) ==
    CASE Command(key) = "home" -> home
      [] Command(key) = "end" -> end
      [] Command(key) = "down" -> down
      [] Command(key) = "up" -> up
      [] Command(key) = "left" -> left
      [] Command(key) = "right" -> right
      [] Command(key) = "pageDown" -> pageDown
      [] Command(key) = "pageUp" -> pageUp
      [] OTHER -> Nav

\* The callbacks the handler invokes for the key.
Invoked(key) ==
    IF IsCancel(key)
    THEN (IF done THEN <<[fn |-> "done", key |-> key, row |-> 0, column |-> 0]>>
          ELSE <<>>)
    ELSE IF key = "Enter" /\ (rowsSelectable \/ columnsSelectable) /\ selected
    THEN <<[fn |-> "selected", key |-> key, row |-> selectedRow,
            column |-> selectedColumn]>>
    ELSE <<>>

InputHandler(key) ==
    LET nav == IF IsCancel(key) THEN Nav ELSE Move(key)
    IN  /\ selectedRow' = nav.selectedRow
        /\ selectedColumn' = nav.selectedColumn
        /\ rowOffset' = nav.rowOffset
        /\ columnOffset' = nav.columnOffset
        /\ trackEnd' = nav.trackEnd
        /\ calls' = Invoked(key)
        /\ paint' = NoPaint
        /\ UNCHANGED <<cells, lastColumn, written, config, handlers, visibleRows>>

-----------------------------------------------------------------------------
(* The specifications.  A paint that panics ends the program.  Each        *)
(* specification drives the whole table through the operations above and   *)
(* differs in the inputs it draws.                                         *)

Running == ~paint.panic

\* Scrolling keys are followed while the offsets stay in the model's range.
OffsetsInRange(bound) ==
    /\ rowOffset \in -bound..bound
    /\ columnOffset \in -bound..bound

RowKeys == {"Home", "End", "Up", "Down", "PgDn", "PgUp"}

(* The row axis: a one-column table of up to MaxRow+1 rows, grown a row at *)
(* a time, with every key that moves along the rows.                       *)

RowsSetCell ==
    Running /\ \E row \in {RowCount} \cap 0..MaxRow : SetCell(row, 0, CellA)
RowsClear == Running /\ Clear
RowsSetBorders == Running /\ \E show \in BOOLEAN : SetBorders(show)
RowsSetFixed == Running /\ \E rows \in 0..1 : SetFixed(rows, 0)
RowsSetSelectable == Running /\ \E rows \in BOOLEAN : SetSelectable(rows, FALSE)
RowsKey ==
    Running /\ \E key \in RowKeys : InputHandler(key) /\ OffsetsInRange(MaxOffset)'
RowsDraw == Running /\ \E height \in 0..MaxHeight : Draw(MaxWidth, height)

NextRows ==
    \/ RowsSetCell
    \/ RowsClear
    \/ RowsSetBorders
    \/ RowsSetFixed
    \/ RowsSetSelectable
    \/ RowsKey
    \/ RowsDraw

SpecRows == Init /\ [][NextRows]_vars

(* The key handler: every key, every selection mode, a table of up to      *)
(* KeyRow+1 rows, all of one cell or all of two, painted at one size.      *)

\* Rows 0..KeyRow are written.
KeyRow == 1
\* The inner rectangle's height at every paint.
KeyHeight == 2
\* Scrolling keys are taken while the offsets stay within -KeyOffset..KeyOffset.
KeyOffset == 1

KeysSetCell ==
    Running /\ \E row \in {RowCount} \cap 0..KeyRow :
                   \E column \in (IF row = 0 THEN 0..1 ELSE {lastColumn}) :
                       SetCell(row, column, CellA)
KeysClear == Running /\ Clear
KeysSetSelectable ==
    Running /\ \E rows \in BOOLEAN : \E columns \in BOOLEAN :
                   SetSelectable(rows, columns)
KeysKey ==
    Running /\ \E key \in Keys : InputHandler(key) /\ OffsetsInRange(KeyOffset)'
KeysDraw == Running /\ Draw(MaxWidth, KeyHeight)

NextKeys ==
    \/ KeysSetCell
    \/ KeysClear
    \/ KeysSetSelectable
    \/ KeysKey
    \/ KeysDraw

SpecKeys == Init /\ [][NextKeys]_vars

(* The cell store: writes of two cell values anywhere in rows 0..StoreRow  *)
(* and columns 0..StoreColumn, clears, and paints of the whole grid.       *)

\* Rows 0..StoreRow are written.
StoreRow == 1
\* Columns 0..StoreColumn are written.
StoreColumn == 1

StoreSetCell ==
    Running /\ \E row \in 0..StoreRow : \E column \in 0..StoreColumn :
                   \E cell \in {DefaultCell, CellA} : SetCell(row, column, cell)
StoreClear == Running /\ Clear
StoreDraw == Running /\ Draw(MaxWidth, MaxHeight)

NextStore ==
    \/ StoreSetCell
    \/ StoreClear
    \/ StoreDraw

SpecStore == Init /\ [][NextStore]_vars

(* The column axis: a one-row table of up to MaxColumn+1 columns of two    *)
(* widths, grown a column at a time and overwritten, with every key that   *)
(* moves along the columns, painted at every width.                        *)

ColumnKeys == {"Home", "End", "Left", "Right"}

ColumnsSetCell ==
    Running /\ \E column \in 0..Min(RowLen(cells, 0), MaxColumn) :
                   \E cell \in {CellA, CellHello} : SetCell(0, column, cell)
ColumnsClear == Running /\ Clear
ColumnsSetFixed == Running /\ \E columns \in 0..1 : SetFixed(0, columns)
ColumnsSetSelectable ==
    Running /\ \E columns \in BOOLEAN : SetSelectable(FALSE, columns)
ColumnsKey ==
    Running /\ \E key \in ColumnKeys :
                   InputHandler(key) /\ OffsetsInRange(MaxOffset)'
ColumnsDraw == Running /\ \E width \in 0..MaxWidth : Draw(width, 1)

NextColumns ==
    \/ ColumnsSetCell
    \/ ColumnsClear
    \/ ColumnsSetFixed
    \/ ColumnsSetSelectable
    \/ ColumnsKey
    \/ ColumnsDraw

SpecColumns == Init /\ [][NextColumns]_vars

-----------------------------------------------------------------------------
(* Properties of the row axis, checked under SpecRows. *)

\* The state is the one a paint that came back has left.
Painted == paint.painted /\ ~paint.panic

\* row is in the visible-row list the paint computed.
RowShown(row) == \E i \in 1..Len(paint.rows) : paint.rows[i] = row

\* C1: after any paint with rows selectable, a viewport that holds the fixed
\* rows and one more row, and selectedRow in 0..rowCount-1, the selected row
\* is in the visible-row list of that paint, the first paint of a new table
\* included.
C1_SelectedRowShown ==
    (/\ Painted
     /\ rowsSelectable
     /\ Capacity(paint.height) >= fixedRows + 1
     /\ selectedRow \in 0..(RowCount - 1))
        => RowShown(selectedRow)

\* C3: after any paint the row offset lies in 0..max(0, rowCount - capacity),
\* capacity being height without borders and height/2 with them.
C3_RowOffsetInRange ==
    paint.painted
        => rowOffset \in 0..Max(0, RowCount - Capacity(paint.height))

\* C3's case: a bordered table of odd height, scrolled past its last page
\* before the paint, is painted with the offset at its upper limit.
C3_Witness ==
    /\ Painted
    /\ borders
    /\ paint.height = 3
    /\ RowCount >= 3
    /\ paint.before.rowOffset > RowCount - 1
    /\ ~paint.before.trackEnd
    /\ rowOffset = RowCount - 1

\* C7: without borders and fixed rows, rows selectable, 1 <= height < rowCount
\* and the last row selected, the paint leaves rowOffset = rowCount - height
\* and the selected row is the last visible one.
C7_LastRowSelected ==
    (/\ paint.painted
     /\ ~borders
     /\ fixedRows = 0
     /\ rowsSelectable
     /\ 1 <= paint.height
     /\ paint.height < RowCount
     /\ selectedRow = RowCount - 1)
        => /\ rowOffset = RowCount - paint.height
           /\ Len(paint.rows) = paint.height
           /\ paint.rows[Len(paint.rows)] = selectedRow

\* C7's case: 5 rows, height 3, the selection moved down to row 4 since the
\* paint before (which showed rows 0..2); the paint shows rows 2..4.
C7_Witness ==
    /\ Painted
    /\ ~borders
    /\ fixedRows = 0
    /\ rowsSelectable
    /\ RowCount = 5
    /\ paint.height = 3
    /\ selectedRow = 4
    /\ paint.before.rowOffset = 0
    /\ rowOffset = 2
    /\ paint.rows = <<2, 3, 4>>

-----------------------------------------------------------------------------
(* Properties of the key handler, checked under SpecKeys. *)

\* The step is a key command: InputHandler's function called with some key.
KeyStep == \E key \in Keys : InputHandler(key)

\* The step is a paint.
PaintStep == paint'.painted

\* C4 as claimed: after every key command and after every paint
\* rowOffset >= 0 and columnOffset >= 0.
C4_OffsetsNeverNegative ==
    [][(KeyStep \/ PaintStep) => (rowOffset' >= 0 /\ columnOffset' >= 0)]_vars

\* C4 as amended: after every paint rowOffset >= 0 and columnOffset >= 0 (the
\* key commands do not clamp the offsets; the next paint does).
C4_OffsetsAfterPaint ==
    paint.painted => (rowOffset >= 0 /\ columnOffset >= 0)

\* C4's case: a paint that started from two negative offsets.
C4_Witness ==
    /\ Painted
    /\ paint.before.rowOffset < 0
    /\ paint.before.columnOffset < 0
    /\ rowOffset = 0
    /\ columnOffset = 0

\* The selection is where C5 says it is.
SelectionInRange ==
    /\ IF rowsSelectable /\ RowCount >= 1
       THEN selectedRow \in 0..(RowCount - 1)
       ELSE selectedRow = 0
    /\ IF columnsSelectable /\ lastColumn >= 0
       THEN selectedColumn \in 0..lastColumn
       ELSE selectedColumn = 0

\* C5: after every key command and every paint, with cell writes and clears
\* in between, the selected row is in 0..rowCount-1 if rows are selectable
\* and there is a row, and 0 otherwise; and so for the selected column.
C5_SelectionInRange ==
    [][(KeyStep \/ PaintStep) => SelectionInRange']_vars

\* The step is a Down command.
DownStep == \E key \in {"Down", "j"} : InputHandler(key)

\* C6: with rows selectable a Down command never decreases the selected row;
\* it adds 1 below rowCount-1 and changes nothing at rowCount-1.
C6_DownMonotone ==
    [][(DownStep /\ rowsSelectable) =>
          /\ selectedRow' >= selectedRow
          /\ selectedRow < RowCount - 1 => selectedRow' = selectedRow + 1
          /\ selectedRow = RowCount - 1 => selectedRow' = selectedRow]_vars

-----------------------------------------------------------------------------
(* Properties of the cell store, checked under SpecStore. *)

\* The cell most recently passed to SetCell at (row, column) since the last
\* Clear, and the default cell if there is none.
LastWritten(row, column) ==
    IF \E e \in written : e.row = row /\ e.column = column
    THEN (CHOOSE e \in written : e.row = row /\ e.column = column).cell
    ELSE DefaultCell

\* C8: GetCell(r, c), for any r, c >= 0, returns the cell most recently
\* written at (r, c) since the last Clear, and a default cell if there is
\* none, also beyond the row count and beyond the row's length.
C8_ReadsLastWrite ==
    \A row \in 0..(StoreRow + 1) : \A column \in 0..(StoreColumn + 1) :
        GetCell(row, column) = LastWritten(row, column)

\* C8's case: (1, 1) was written twice, last with CellA, and nothing else:
\* row 0 is a gap row and (1, 0) a gap cell, and the reads there, at (1, 1)
\* and beyond the grid return the default cell, CellA and the default cell.
C8_Witness ==
    /\ written = {[row |-> 1, column |-> 1, cell |-> CellA]}
    /\ cells = <<<<>>, <<DefaultCell, CellA>>>>
    /\ GetCell(0, 0) = DefaultCell
    /\ GetCell(1, 0) = DefaultCell
    /\ GetCell(1, 1) = CellA
    /\ GetCell(StoreRow + 1, StoreColumn + 1) = DefaultCell

\* What C10 says of a step from grid to after by SetCell(row, column, cell).
GapFilled(grid, after, row, column, cell) ==
    /\ Len(after) = Max(Len(grid), row + 1)
    /\ Len(after[row + 1]) = Max(RowLen(grid, row), column + 1)
    /\ \A c \in RowLen(grid, row)..(column - 1) : after[row + 1][c + 1] = DefaultCell
    /\ \A r \in Len(grid)..(Len(after) - 1) : r # row => after[r + 1] = <<>>
    /\ \A r \in 0..(Len(grid) - 1) :
          /\ r # row => after[r + 1] = grid[r + 1]
          /\ \A c \in 0..(Len(grid[r + 1]) - 1) :
                ~(r = row /\ c = column) => after[r + 1][c + 1] = grid[r + 1][c + 1]

\* C10: SetCell(r, c, cell) grows the grid by gap-filling only: the row count
\* and the length of row r grow to r+1 and c+1 at most, the new cells of row
\* r below c are default cells, the new rows other than r are empty, and
\* the cells that were there, other than (r, c), are unchanged.  Stated of
\* the write of any cell anywhere to any grid the table can hold.
C10_SetCellGapFills ==
    \A row \in 0..StoreRow : \A column \in 0..StoreColumn :
        \A cell \in {DefaultCell, CellA} :
            GapFilled(cells, SetCellGrid(cells, row, column, cell),
                      row, column, cell)

\* C10's case: the one write since the last Clear, at (1, 1), has made row 0
\* empty and cell (1, 0) a default cell.
C10_Witness ==
    /\ written = {[row |-> 1, column |-> 1, cell |-> CellA]}
    /\ cells = <<<<>>, <<DefaultCell, CellA>>>>

-----------------------------------------------------------------------------
(* Properties of the column axis, checked under SpecColumns. *)

RECURSIVE SeqSum(_, _)
SeqSum(values, from) ==
    IF from > Len(values) THEN 0 ELSE values[from] + SeqSum(values, from + 1)

\* The screen columns the fixed columns other than the selected one take,
\* each with its separator, after the left border if there is one.
FixedColumnsWidth ==
    (IF borders THEN 1 ELSE 0)
        + SeqSum([c \in 1..fixedColumns |->
                     IF c - 1 = selectedColumn THEN 0
                     ELSE ColumnWidth(paint.rows, c - 1) + 1], 1)

\* The viewport holds every fixed column and the whole selected column, with
\* its separator.
WideEnough ==
    FixedColumnsWidth + ColumnWidth(paint.rows, selectedColumn) + 1 <= paint.width

\* Every visible row holds a cell in every column up to lastColumn.
RowsComplete ==
    \A i \in 1..Len(paint.rows) : \A c \in 0..lastColumn : HasCell(paint.rows[i], c)

\* column is in the visible column set and its text starts inside the viewport.
ColumnShown(column) ==
    \E i \in 1..Len(paint.columns) :
        /\ paint.columns[i] = column
        /\ TextX(paint.widths, i) < paint.width

\* C2: after any paint with columns selectable, selectedColumn in
\* 0..lastColumn, complete visible rows and a viewport that holds the fixed
\* columns and the whole selected column, the selected column is in the
\* visible column set and starts inside the viewport.
C2_SelectedColumnShown ==
    (/\ Painted
     /\ columnsSelectable
     /\ selectedColumn \in 0..lastColumn
     /\ RowsComplete
     /\ WideEnough)
        => ColumnShown(selectedColumn)

\* The greatest column index passed to SetCell since the last Clear, -1 if
\* there is none.
RECURSIVE SetMax(_)
SetMax(S) ==
    IF S = {} THEN -1
    ELSE LET x == CHOOSE x \in S : TRUE IN Max(x, SetMax(S \ {x}))

MaxWrittenColumn == SetMax({e.column : e \in written})

\* C9: in every reachable state, after key commands and paints too,
\* lastColumn is the greatest column index passed to SetCell since the last
\* Clear, and -1 if there is none.
C9_LastColumnIsMax == lastColumn = MaxWrittenColumn

\* C9's case: writes at columns 0 and 1, then one at column 0 again, Right
\* keys that moved the selection to column 1 and a paint: lastColumn is 1.
C9_Witness ==
    /\ Painted
    /\ columnsSelectable
    /\ selectedColumn = 1
    /\ cells = <<<<CellHello, CellA>>>>
    /\ lastColumn = 1

-----------------------------------------------------------------------------
(* Properties of the column scan, checked under SpecColumns. *)

\* The visible columns are fixed columns 0, 1, ... and then the columns from
\* fixedColumns + offset on, in order and without a gap.
ColumnsFromOffset(columns, offset) ==
    \A i \in 1..Len(columns) :
        columns[i] = IF i <= fixedColumns THEN i - 1 ELSE i - 1 + offset

\* C11: after any paint the column offset is the number of columns that
\* paint evicted, whatever offset was requested, and the visible columns
\* are a prefix of the fixed columns followed by the gap-free ascending run
\* of columns that starts at fixedColumns + columnOffset.
C11_ColumnOffsetIsEvicted ==
    Painted =>
        /\ columnOffset = Len(paint.evicted)
        /\ \A i \in 1..Len(paint.evicted) :
               paint.evicted[i] = fixedColumns + i - 1
        /\ ColumnsFromOffset(paint.columns, columnOffset)

\* C11's case: a paint that was asked for an offset of two columns, evicted
\* one and shows the fixed column and the run behind the evicted one.
C11_Witness ==
    /\ Painted
    /\ fixedColumns = 1
    /\ paint.before.columnOffset = 2
    /\ paint.evicted = <<1>>
    /\ columnOffset = 1
    /\ paint.columns = <<0, 2>>

\* The columns the scan accepted: those it kept and those it evicted.
Accepted == {paint.columns[i] : i \in 1..Len(paint.columns)}
                \cup {paint.evicted[i] : i \in 1..Len(paint.evicted)}

\* C12: in any paint, no evicted column has an index below fixedColumns:
\* every fixed column the scan accepted is in the visible columns at the
\* end of the scan.
C12_FixedColumnsKept ==
    paint.painted =>
        /\ \A i \in 1..Len(paint.evicted) : paint.evicted[i] >= fixedColumns
        /\ \A c \in Accepted :
               c < fixedColumns => \E i \in 1..Len(paint.columns) : paint.columns[i] = c

\* C12's case: a paint with a fixed column whose scan evicted a column to
\* bring the selected column in, and kept the fixed one.
C12_Witness ==
    /\ Painted
    /\ fixedColumns = 1
    /\ columnsSelectable
    /\ selectedColumn = 2
    /\ Len(paint.evicted) >= 1
    /\ Len(paint.columns) >= 1
    /\ paint.columns[1] = 0

-----------------------------------------------------------------------------
(* The callbacks: a one-column table of up to KeyRow+1 rows, every         *)
(* selection mode, each callback registered or nil, and the keys that end  *)
(* in a callback next to keys that move.                                   *)

HandlerKeys == {"Enter", "Escape", "Tab", "Backtab", "Down", "Right", "End", "x"}

HandlersSetCell ==
    Running /\ \E row \in {RowCount} \cap 0..KeyRow : SetCell(row, 0, CellA)
HandlersSetSelectable ==
    Running /\ \E rows \in BOOLEAN : \E columns \in BOOLEAN :
                   SetSelectable(rows, columns)
HandlersSetSelectedFunc == Running /\ \E handler \in BOOLEAN : SetSelectedFunc(handler)
HandlersSetDoneFunc == Running /\ \E handler \in BOOLEAN : SetDoneFunc(handler)
HandlersKey ==
    Running /\ \E key \in HandlerKeys :
                   InputHandler(key) /\ OffsetsInRange(KeyOffset)'
HandlersDraw == Running /\ Draw(MaxWidth, KeyHeight)

NextHandlers ==
    \/ HandlersSetCell
    \/ HandlersSetSelectable
    \/ HandlersSetSelectedFunc
    \/ HandlersSetDoneFunc
    \/ HandlersKey
    \/ HandlersDraw

SpecHandlers == Init /\ [][NextHandlers]_vars

(* Properties of the callbacks, checked under SpecHandlers. *)

\* The fields a key command may move.
NavigationUnchanged == UNCHANGED navigation

\* C13: every Escape, Tab and Backtab, and every Enter while neither rows
\* nor columns are selectable, calls the registered done callback exactly
\* once, with that key, never the selected callback, and changes no
\* selection, offset or track-end field.
C13_CancelCallsDone ==
    [][\A key \in Keys :
          (/\ InputHandler(key)
           /\ done
           /\ \/ key \in {"Escape", "Tab", "Backtab"}
              \/ key = "Enter" /\ ~rowsSelectable /\ ~columnsSelectable)
          => /\ Len(calls') = 1
             /\ calls'[1].fn = "done"
             /\ calls'[1].key = key
             /\ NavigationUnchanged]_vars

\* C13's case: an Enter with nothing selectable, both callbacks registered,
\* on a table that was scrolled: the done callback was called with Enter.
C13_Witness ==
    /\ ~rowsSelectable
    /\ ~columnsSelectable
    /\ selected
    /\ done
    /\ rowOffset = 1
    /\ calls = <<[fn |-> "done", key |-> "Enter", row |-> 0, column |-> 0]>>

\* C14: an Enter while rows or columns are selectable calls the registered
\* selected callback exactly once, with the selected row and column as they
\* are, never the done callback, and changes no selection, offset or
\* track-end field.
C14_EnterCallsSelected ==
    [][(/\ InputHandler("Enter")
        /\ selected
        /\ rowsSelectable \/ columnsSelectable)
       => /\ Len(calls') = 1
          /\ calls'[1].fn = "selected"
          /\ calls'[1].row = selectedRow
          /\ calls'[1].column = selectedColumn
          /\ NavigationUnchanged]_vars

\* C14's case: an Enter with rows selectable, both callbacks registered and
\* the selection on row 1: the selected callback was called with (1, 0).
C14_Witness ==
    /\ rowsSelectable
    /\ selected
    /\ done
    /\ selectedRow = 1
    /\ calls = <<[fn |-> "selected", key |-> "Enter", row |-> 1, column |-> 0]>>

-----------------------------------------------------------------------------
(* Properties of Home, End and the page keys, checked under SpecKeys. *)

\* The step is a Home command.
HomeStep == \E key \in {"Home", "g"} : InputHandler(key)

\* The step is an End command.
EndStep == \E key \in {"End", "G"} : InputHandler(key)

\* C15: Home and End act on each axis by itself: on an axis that is
\* selectable, in columns-only mode too, the selection jumps to the first
\* index (Home) or the last (End: rowCount-1, lastColumn).  Stated for a
\* table that holds a cell.
C15_HomeEndPerAxis ==
    [][RowCount >= 1 =>
          /\ HomeStep => /\ rowsSelectable => selectedRow' = 0
                         /\ columnsSelectable => selectedColumn' = 0
          /\ EndStep => /\ rowsSelectable => selectedRow' = RowCount - 1
                        /\ columnsSelectable => selectedColumn' = lastColumn]_vars

\* The step is a PageDown command.
PageDownStep == \E key \in {"PgDn", "CtrlF"} : InputHandler(key)

\* The step is a PageUp command.
PageUpStep == \E key \in {"PgUp", "CtrlB"} : InputHandler(key)

\* row cut to 0..rowCount-1.
ClampedRow(row) == Max(0, Min(row, RowCount - 1))

\* C16: a paint records the rows its viewport holds (height, or height/2
\* with borders); PageDown and PageUp step by that count: with rows
\* selectable the selected row moves by it, cut to 0..rowCount-1; otherwise
\* the row offset changes by it, PageUp also turning track-end off; and
\* while the count is 0, as before any paint, neither the selected row nor
\* the row offset changes.
C16_PageStep ==
    [][/\ PaintStep =>
              visibleRows' = IF borders THEN paint'.height \div 2 ELSE paint'.height
       /\ PageDownStep =>
              IF rowsSelectable
              THEN selectedRow' = ClampedRow(selectedRow + visibleRows)
              ELSE rowOffset' = rowOffset + visibleRows
       /\ PageUpStep =>
              IF rowsSelectable
              THEN selectedRow' = ClampedRow(selectedRow - visibleRows)
              ELSE rowOffset' = rowOffset - visibleRows /\ ~trackEnd'
       /\ ((PageDownStep \/ PageUpStep) /\ visibleRows = 0) =>
              (selectedRow' = selectedRow /\ rowOffset' = rowOffset)]_vars

-----------------------------------------------------------------------------
(* Properties of track-end, checked under SpecRows. *)

\* The step is an Up command.
UpStep == \E key \in {"Up", "k"} : InputHandler(key)

\* The paint's viewport has a line left for a row that is not fixed.
RoomBelowFixed == Capacity(paint.height) > Min(fixedRows, RowCount)

-----------------------------------------------------------------------------
(* Table.Draw: the text of a cell.  Visible column i (1-based) of the last *)
(* paint has its text at TextX; a text is a sequence of characters.        *)

\* The character that ends a text that was cut.
GraphicsEllipsis == "GraphicsEllipsis"

\* w: the column's width, cut where the column runs into the right edge.
TextWidth(widths, i, width) ==
    IF TextX(widths, i) + widths[i] >= width
    THEN width - TextX(widths, i)
    ELSE widths[i]

\* The cut one character late: w characters and then the ellipsis.
CellTextNoRoom(cell, w) ==
    IF w < Len(cell.Text) /\ w > 0
    THEN SubSeq(cell.Text, 1, w) \o <<GraphicsEllipsis>>
    ELSE cell.Text

\* text: the cell's characters, the last one that fits replaced by the
\* ellipsis when there are more than w.
CellText(cell, w) ==
    IF w < Len(cell.Text) /\ w > 0
    THEN SubSeq(cell.Text, 1, w - 1) \o <<GraphicsEllipsis>>
    ELSE cell.Text

\* The text-printing primitive, left-aligned: the text clipped to maxWidth.
PrintClipped(text, maxWidth) ==
    IF maxWidth <= 0 THEN <<>> ELSE SubSeq(text, 1, Min(Len(text), maxWidth))

\* What the last paint drew for the cell of visible row r in visible column i.
Rendered(r, i) ==
    LET w == TextWidth(paint.widths, i, paint.width)
    IN  PrintClipped(CellText(cells[paint.rows[r] + 1][paint.columns[i] + 1], w), w)

(* Properties of the text, checked under SpecColumns. *)

\* C18: a text of more characters than the width w > 0 its column has is
\* drawn as its first w-1 characters and the ellipsis, a text of at most w
\* characters as it is; "hello" with max width 3 in a column of width 3 is
\* drawn as "he" and the ellipsis.
C18_EllipsisCut ==
    Painted =>
        \A i \in 1..Len(paint.columns) : \A r \in 1..Len(paint.rows) :
            LET w == TextWidth(paint.widths, i, paint.width)
                cell == cells[paint.rows[r] + 1][paint.columns[i] + 1]
            IN  /\ (w > 0 /\ Len(cell.Text) > w) =>
                       Rendered(r, i) = SubSeq(cell.Text, 1, w - 1) \o <<GraphicsEllipsis>>
                /\ (w > 0 /\ Len(cell.Text) <= w) => Rendered(r, i) = cell.Text
                /\ (cell = CellHello /\ paint.widths[i] = 3 /\ w = 3) =>
                       Rendered(r, i) = <<"h", "e", GraphicsEllipsis>>

\* C18's case: "hello" with max width 3 painted in a column of width 3 that
\* the viewport holds whole.
C18_Witness ==
    /\ Painted
    /\ paint.rows = <<0>>
    /\ Len(paint.columns) >= 1
    /\ paint.columns[1] = 0
    /\ cells[1][1] = CellHello
    /\ paint.widths[1] = 3
    /\ TextWidth(paint.widths, 1, paint.width) = 3
    /\ Rendered(1, 1) = <<"h", "e", GraphicsEllipsis>>

-----------------------------------------------------------------------------
(* Properties of the skip loop's stops, checked under SpecColumns. *)

\* C19: with columns selectable and selectedColumn >= fixedColumns no paint
\* evicts the selected column, at the seam between the fixed and the
\* scrolled columns either: after the paint
\* columnOffset <= selectedColumn - fixedColumns.
C19_SelectedColumnNotEvicted ==
    (Painted /\ columnsSelectable /\ selectedColumn >= fixedColumns) =>
        /\ columnOffset <= selectedColumn - fixedColumns
        /\ \A i \in 1..Len(paint.evicted) : paint.evicted[i] # selectedColumn

\* C19's case: three columns, the second selected, a viewport one character
\* wide: the first column is evicted, the scan stops at the seam and the
\* selected column stays.
C19_Witness ==
    /\ Painted
    /\ columnsSelectable
    /\ fixedColumns = 0
    /\ selectedColumn = 1
    /\ lastColumn = 2
    /\ paint.width = 1
    /\ paint.evicted = <<0>>
    /\ paint.columns = <<1>>

\* C20: when the scan, at a candidate column, is beyond the available width
\* and holds no column that is not fixed, it stops: neither the candidate
\* nor a later column is added to the visible columns.  Stated for a
\* viewport at least one character wide.
C20_NothingToSkipStops ==
    (Painted /\ paint.width >= 1) =>
        \A i \in 1..Len(paint.nothing) :
            \A c \in Accepted : c < paint.nothing[i]

-----------------------------------------------------------------------------
(* Properties of the fit test and of repeated paints, checked under        *)
(* SpecRows.                                                               *)

\* The screen lines a table row takes: 2 with borders, 1 without.
RowStep == IF borders THEN 2 ELSE 1

\* C21 as claimed: if the rows fit the viewport height, rowCount * unit <=
\* height with unit 1 borderless and 2 bordered, track-end is on after a
\* paint, whatever the row offset and the flag were before.  Stated for a
\* table that holds a row.
C21_FitEnablesTrackEnd ==
    (Painted /\ RowCount >= 1 /\ RowCount * RowStep <= paint.height) => trackEnd

\* C21 as amended: if the rows leave a viewport line unused, rowCount * unit
\* < height, and the row offset before the paint is not negative, track-end
\* is on after the paint, whatever the flag was before (the test is strict
\* and uses the offset as it is before the floor at 0: at an exact fit, or
\* from a negative offset, the flag can stay off).
C21_RoomEnablesTrackEnd ==
    (/\ Painted
     /\ RowCount * RowStep < paint.height
     /\ paint.before.rowOffset >= 0) => trackEnd

\* C21's case: a paint of a one-row table in a higher viewport, started
\* with track-end off: the flag is on after it.
C21_Witness ==
    /\ Painted
    /\ RowCount = 1
    /\ RowCount * RowStep < paint.height
    /\ paint.before.rowOffset >= 0
    /\ ~paint.before.trackEnd
    /\ trackEnd

\* The step is a paint that comes back, right after a paint of the same
\* viewport size.
RepaintStep ==
    /\ Painted
    /\ PaintStep
    /\ ~paint'.panic
    /\ paint'.width = paint.width
    /\ paint'.height = paint.height

\* C22: a paint right after a paint of the same viewport size, with no key
\* command, setter or cell write in between, leaves the row offset, the
\* column offset, the track-end flag and the visible rows and columns as
\* the first paint left them.
C22_PaintIsFixpoint ==
    [][RepaintStep =>
          /\ rowOffset' = rowOffset
          /\ columnOffset' = columnOffset
          /\ trackEnd' = trackEnd
          /\ paint'.rows = paint.rows
          /\ paint'.columns = paint.columns]_vars

=============================================================================
